---------------------------- MODULE Spec2Model ----------------------------
(***************************************************************************)
(* A model of the sidecar of pkg/sidecar (src/unnamed/part_001): its write *)
(* status bookkeeping and health probes, the managed child process and its *)
(* reaper, the daemon run modes, and the per-audience JWT SVID refresh     *)
(* loop with its retry backoff.                                            *)
(*                                                                         *)
(* Three specifications share the module:                                  *)
(*   Spec        concurrent callers of the update handlers, the child      *)
(*               process and its reapers, the health probes;               *)
(*   SpecDaemon  RunDaemon, its tasks and the poll workers, cancellation;  *)
(*   SpecJWT     updateJWTSVID, the refresh loop of one audience.          *)
(* Each one leaves the variables of the others at their initial values.    *)
(***************************************************************************)
EXTENDS Integers, Sequences, FiniteSets, TLC

(***************************************************************************)
(* Bounds of the model.                                                    *)
(***************************************************************************)
\* Goroutines that call the update handlers concurrently (poll workers, or
\* the watcher callbacks of the watch daemon).
NumUpdaters == 2
\* updateCertificates calls in one behaviour; also the most children spawned.
MaxUpdates == 3

\* Clock ticks in one second: the resolution of the model's time.Duration.
TicksPerSecond == 2
\* The refresh loop is followed for this many seconds.
MaxSeconds == 125
\* A fetched token expires at most this many ticks after, or before, its fetch.
MaxTTL == 5
MaxExpired == 5
\* The largest parallel_requests of the daemon's configurations.
MaxParallel == 2
\* A poll worker is followed for this many fetch cycles.
MaxCycles == 2
\* The most parameters in the query string of a request to the echo server.
MaxParams == 2

Updaters == 1..NumUpdaters
Pids == 1..MaxUpdates
Workers == 1..MaxParallel

\* The tasks RunDaemon can start (part_001 lines 126-144).
AllTasks == {"runParallelDaemon", "watchX509Context", "watchJWTBundles", "watchJWTSVIDs"}

(***************************************************************************)
(* The write statuses (part_001 lines 70-74).  NilStatus is the nil        *)
(* *string of FileWriteStatuses.X509WriteStatus when X.509 is disabled.    *)
(***************************************************************************)
writeStatusUnwritten == "unwritten"
writeStatusFailed == "failed"
writeStatusWritten == "written"
NilStatus == "nil"

(***************************************************************************)
(* Configurations.  A configuration holds the fields of sidecar.Config the *)
(* model reads; JWTSVIDs is the set of the configured JWTSVIDFilename.     *)
(***************************************************************************)
BaseConfig ==
    [SVIDFilename |-> "", SVIDKeyFilename |-> "", SVIDBundleFilename |-> "",
     JWTBundleFilename |-> "", JWTSVIDs |-> {},
     Cmd |-> "", CmdArgs |-> "", PIDFilename |-> "", ParallelRequests |-> 0]

X509On(c) ==
    [c EXCEPT !.SVIDFilename = "svid.pem", !.SVIDKeyFilename = "svid.key",
              !.SVIDBundleFilename = "bundle.pem"]

\* The configurations Spec starts from.
Configs ==
    { [X509On(BaseConfig) EXCEPT !.Cmd = "reload.sh"],
      [X509On(BaseConfig) EXCEPT !.Cmd = "reload.sh", !.CmdArgs = "-a \"b c\"",
                                 !.PIDFilename = "app.pid"],
      [X509On(BaseConfig) EXCEPT !.Cmd = "reload.sh", !.CmdArgs = "-a \"b"],
      [X509On(BaseConfig) EXCEPT !.PIDFilename = "app.pid",
                                 !.JWTBundleFilename = "jwt_bundle.json",
                                 !.JWTSVIDs = {"jwt_svid.token"}],
      [BaseConfig EXCEPT !.JWTBundleFilename = "jwt_bundle.json",
                         !.JWTSVIDs = {"jwt_svid.token"}],
      \* svid_key_file_name missing: X.509 is disabled
      [BaseConfig EXCEPT !.SVIDFilename = "svid.pem", !.SVIDBundleFilename = "bundle.pem",
                         !.JWTSVIDs = {"jwt_svid.token"}] }

VARIABLES
    config,           \* s.config
    x509WriteStatus,  \* *s.health.FileWriteStatuses.X509WriteStatus, or NilStatus
    jwtWriteStatus,   \* s.health.FileWriteStatuses.JWTWriteStatus: path -> status
    processRunning,   \* s.processRunning
    process,          \* s.process: the pid of the child last started, 0 for nil
    mu,               \* s.mu: 0 when free, else the updater that holds it
    pc,               \* where each updater is in updateCertificates
    childState,       \* per pid: "none", "running", "exited" (the operating system's view)
    reaperPc,         \* per pid: where the checkProcessExit goroutine started at its spawn is
    reaperProc,       \* per pid: proc, the handle that goroutine read under the mutex
    panicked,         \* a goroutine panicked: the program is gone
    x509Attempts,     \* history: the outcome of every disk write of updateCertificates
    spawned,          \* history: children started so far (they get the pids 1..spawned)
    signalsSent,      \* history: per pid, the SignalProcess calls of signalProcess on it
    startFailures,    \* history: signalProcess calls that failed before starting a child
    pidSignals,       \* history: the signalPID calls that have returned
    notifyFailed,     \* history: the last signalProcess/signalPID call returned an error
    snapX509,         \* the Health GetHealth returned: what its X509WriteStatus points to
    snapAtReturn,     \* history: whether GetHealth has returned, and the statuses then
    ctxDone,          \* ctx.Done() is closed: cancellation was signalled
    now,              \* time.Now(), in ticks
    loopPc,           \* updateJWTSVID: "off", "start", "select", "returned"
    backoffInterval,  \* backoffInterval of the closure retryInterval holds
    tickerInterval,   \* the period of ticker, 0 before time.NewTicker
    expiry,           \* jwtSVIDs[0].Expiry in ticks, 0 while jwtSVIDs is nil
    refreshDelay,     \* what getRefreshInterval returned for it
    lastOutcome,      \* history: the last performJWTSVIDUpdate: "none", "ok", "failed",
                      \* or "empty" (no error and no SVID)
    failStreak,       \* history: failed updates since the start or the last success
    brokenStreak,     \* history: the length of the streak the last success ended
    retryReturns,     \* history: what the calls of the current retryInterval returned
    lateFetch,        \* history: the loop body made an update after ctx.Done() was closed
    lastInvalid,      \* history: in the last update an SVID failed ParseAndValidate
    lastWrote,        \* history: the last update called disk.WriteJWTSVID
    daemonPc,         \* RunDaemon: "off", "setup", "running", "joining", "returned"
    taskState,        \* per task of RunDaemon: "idle", "running", "returned"
    errch,            \* RunTasks: the results of the tasks that returned, not yet received
    complete,         \* RunTasks: the nil results received
    aggErr,           \* what RunTasks returned: "none" until it does
    daemonResult,     \* what RunDaemon returned: "none" until it does
    pollPc,           \* runParallelDaemon: "off", "waitCtx", "wgWait", "returned"
    workerPc,         \* per poll worker: "off", its step in the cycle, "select", "exited"
    mode,             \* the entry point called: "off", "Run" or "RunDaemon"
    cycles,           \* history: per worker, the fetchAllCredentials calls it has made
    cycleLog,         \* history: per worker, the steps of its current cycle and whether
                      \* each succeeded
    cycleResult,      \* history: per worker, what its current cycle returned: "none"
                      \* until it does, then "nil" or "error"
    request,          \* the echo server: the request sent to it
    response,         \* the echo server: its response, status 0 until it is sent
    access            \* per goroutine of SpecRace: its access to the write statuses that
                      \* is under way, its kind "none", "read" or "write"

healthVars == <<x509WriteStatus, jwtWriteStatus>>
procVars == <<processRunning, process, mu, childState, reaperPc, reaperProc>>
histVars == <<x509Attempts, spawned, signalsSent, startFailures, pidSignals, notifyFailed>>
loopVars == <<now, loopPc, backoffInterval, tickerInterval, expiry, refreshDelay,
              lastOutcome, failStreak, brokenStreak, retryReturns, lateFetch, lastInvalid,
              lastWrote>>
snapVars == <<snapX509, snapAtReturn>>
cycleVars == <<cycles, cycleLog, cycleResult>>
daemonVars == <<daemonPc, taskState, errch, complete, aggErr, daemonResult, pollPc, workerPc,
                mode, cycleVars>>
echoVars == <<request, response>>
vars == <<config, healthVars, procVars, pc, panicked, histVars, snapVars, ctxDone, loopVars,
          daemonVars, echoVars, access>>

\* What the actions of Spec leave alone.
notSpecVars == <<ctxDone, loopVars, daemonVars, echoVars, access>>

(***************************************************************************)
(* Configuration predicates (part_001 lines 449-459).                      *)
(***************************************************************************)
x509Enabled ==
    config.SVIDFilename /= "" /\ config.SVIDKeyFilename /= "" /\ config.SVIDBundleFilename /= ""

jwtBundleEnabled == config.JWTBundleFilename /= ""

jwtSVIDsEnabled == Cardinality(config.JWTSVIDs) > 0

(***************************************************************************)
(* setupHealth (part_001 lines 99-112): the statuses after New.            *)
(***************************************************************************)
setupHealthX509(c) ==
    IF c.SVIDFilename /= "" /\ c.SVIDKeyFilename /= "" /\ c.SVIDBundleFilename /= ""
    THEN writeStatusUnwritten ELSE NilStatus

setupHealthJWT(c) ==
    [p \in (IF c.JWTBundleFilename /= "" THEN {c.JWTBundleFilename} ELSE {}) \cup c.JWTSVIDs
        |-> writeStatusUnwritten]

(***************************************************************************)
(* The health probes (part_001 lines 517-536).                             *)
(***************************************************************************)
\* CheckLiveness without its X.509 test.
CheckLiveness_JWTOnly ==
    ~ \E p \in DOMAIN jwtWriteStatus : jwtWriteStatus[p] = writeStatusFailed

CheckLiveness ==
    /\ ~ \E p \in DOMAIN jwtWriteStatus : jwtWriteStatus[p] = writeStatusFailed
    /\ ~ (x509Enabled /\ x509WriteStatus = writeStatusFailed)

\* CheckReadiness that only looks for Failed, as CheckLiveness does.
CheckReadiness_NotFailed ==
    /\ ~ \E p \in DOMAIN jwtWriteStatus : jwtWriteStatus[p] = writeStatusFailed
    /\ (~ x509Enabled \/ x509WriteStatus /= writeStatusFailed)

CheckReadiness ==
    /\ ~ \E p \in DOMAIN jwtWriteStatus : jwtWriteStatus[p] /= writeStatusWritten
    /\ (~ x509Enabled \/ x509WriteStatus = writeStatusWritten)

(***************************************************************************)
(* The tracked resources: the X.509 status when X.509 is enabled, and the  *)
(* paths of the status map.                                                *)
(***************************************************************************)
X509Resource == "x509"

TrackedResources == (IF x509Enabled THEN {X509Resource} ELSE {}) \cup DOMAIN jwtWriteStatus

StatusOf(r) == IF r = X509Resource THEN x509WriteStatus ELSE jwtWriteStatus[r]

(***************************************************************************)
(* getCmdArgs (part_001 lines 479-492): the empty string gives no          *)
(* arguments; otherwise one CSV record with ' ' as the comma is read, and  *)
(* a quote that is opened and never closed is an error.  The model keeps   *)
(* whether the read fails: the number of '"' of the two argument strings   *)
(* of Configs decides it.                                                  *)
(***************************************************************************)
QuoteCount(args) ==
    CASE args = "" -> 0
      [] args = "-a \"b c\"" -> 2
      [] args = "-a \"b" -> 1
      [] OTHER -> 0

getCmdArgsFails(args) ==
    IF args = "" THEN FALSE ELSE QuoteCount(args) % 2 = 1

(***************************************************************************)
(* s.mu.Lock() (part_001 lines 289, 342, 357) returns when no goroutine    *)
(* holds the mutex.                                                        *)
(***************************************************************************)
\* A Lock that never waits.
MutexFree_NoWait(m) == TRUE

MutexFree(m) == m = 0

\* A failed write that puts the status back to Unwritten.
X509StatusAfterWrite_Reset(ok, old) ==
    IF ok THEN writeStatusWritten ELSE writeStatusUnwritten

\* A Failed status that a later successful write does not clear.
X509StatusAfterWrite_Sticky(ok, old) ==
    IF ok /\ old /= writeStatusFailed THEN writeStatusWritten ELSE writeStatusFailed

\* The status updateCertificates stores after its disk write (lines 257-264).
X509StatusAfterWrite(ok, old) == IF ok THEN writeStatusWritten ELSE writeStatusFailed

\* A JWT handler that stores nothing when its disk write fails.
JWTStatusAfterWrite_Sticky(ok, old) == IF ok THEN writeStatusWritten ELSE old

\* The status the JWT handlers store after their disk write (lines 410-415, 501-506).
JWTStatusAfterWrite(ok, old) == IF ok THEN writeStatusWritten ELSE writeStatusFailed

\* A failed disk write that marks every file of the map Failed.
JWTStatusAfterUpdate_FailAll(f, fetchOk, writeOk) ==
    IF ~ fetchOk THEN jwtWriteStatus
    ELSE IF writeOk THEN [jwtWriteStatus EXCEPT ![f] = writeStatusWritten]
    ELSE [g \in DOMAIN jwtWriteStatus |-> writeStatusFailed]

\* The status map after performJWTSVIDUpdate for the SVID file f (lines 403-415):
\* a failed fetchJWTSVIDs returns before the map is touched.
JWTStatusAfterUpdate(f, fetchOk, writeOk) ==
    IF ~ fetchOk THEN jwtWriteStatus
    ELSE [jwtWriteStatus EXCEPT ![f] = JWTStatusAfterWrite(writeOk, @)]

\* A failed start that leaves the flag set.
RunningAfterFailedStart_Set(running) == TRUE

\* s.processRunning after a signalProcess whose getCmdArgs or cmd.Start failed:
\* the returns of lines 295 and 304 come before the assignments of lines 306-307.
RunningAfterFailedStart(running) == running

\* An update that ends after signalProcess, without the PID-file signal.
AfterSignalProcess_Idle == "idle"

\* Where updateCertificates goes once signalProcess is done (lines 273-285).
AfterSignalProcess == IF config.PIDFilename /= "" THEN "signalPID" ELSE "idle"

\* An update that notifies the process whatever the disk write returned.
AfterX509Write_Always(ok) ==
    IF config.Cmd /= "" THEN "signalProcess" ELSE AfterSignalProcess

\* Where updateCertificates goes after its disk write (lines 257-271): a failed
\* write returns at once, a successful one goes on to the notifications.
AfterX509Write(ok) ==
    IF ~ ok THEN "idle"
    ELSE IF config.Cmd /= "" THEN "signalProcess"
    ELSE AfterSignalProcess

\* A signalProcess that starts a child whatever the flag says.
SignalProcessBranch_AlwaysStart(running) == "sp_start"

\* The branch of signalProcess (line 292): start the child when none is marked
\* running, signal the running one otherwise.
SignalProcessBranch(running) == IF ~ running THEN "sp_start" ELSE "sp_signal"

\* A start that leaves the flag as it was found.
RunningAfterStart_Unset == FALSE

\* line 307: s.processRunning = true
RunningAfterStart == TRUE

\* Before GetHealth is called.
NoSnapshot(c) == [taken |-> FALSE, x509 |-> setupHealthX509(c), jwt |-> setupHealthJWT(c)]

\* The refresh loop of SpecJWT, not started.
LoopIdle ==
    /\ now = 0
    /\ loopPc = "off"
    /\ backoffInterval = 0
    /\ tickerInterval = 0
    /\ expiry = 0
    /\ refreshDelay = 0
    /\ lastOutcome = "none"
    /\ failStreak = 0
    /\ brokenStreak = 0
    /\ retryReturns = <<>>
    /\ lateFetch = FALSE
    /\ lastInvalid = FALSE
    /\ lastWrote = FALSE

\* The goroutines of SpecRace: 0 is the one that serves the health queries,
\* the others are the updaters.
Accessors == 0..NumUpdaters

NoAccess == [kind |-> "none", target |-> "none"]

\* The echo server of SpecEcho, with no request; no access under way.
EchoIdle ==
    /\ request = [method |-> "", path |-> "", query |-> <<>>]
    /\ response = [status |-> 0, body |-> ""]
    /\ access = [a \in Accessors |-> NoAccess]

\* RunDaemon of SpecDaemon, not called.
DaemonIdle ==
    /\ daemonPc = "off"
    /\ taskState = [k \in AllTasks |-> "idle"]
    /\ errch = <<>>
    /\ complete = 0
    /\ aggErr = "none"
    /\ daemonResult = "none"
    /\ pollPc = "off"
    /\ workerPc = [w \in Workers |-> "off"]
    /\ mode = "off"
    /\ cycles = [w \in Workers |-> 0]
    /\ cycleLog = [w \in Workers |-> <<>>]
    /\ cycleResult = [w \in Workers |-> "none"]

Init ==
    /\ config \in Configs
    /\ x509WriteStatus = setupHealthX509(config)
    /\ jwtWriteStatus = setupHealthJWT(config)
    /\ processRunning = FALSE
    /\ process = 0
    /\ mu = 0
    /\ pc = [t \in Updaters |-> "idle"]
    /\ childState = [p \in Pids |-> "none"]
    /\ reaperPc = [p \in Pids |-> "none"]
    /\ reaperProc = [p \in Pids |-> 0]
    /\ panicked = FALSE
    /\ x509Attempts = <<>>
    /\ spawned = 0
    /\ signalsSent = [p \in Pids |-> 0]
    /\ startFailures = 0
    /\ pidSignals = 0
    /\ notifyFailed = FALSE
    /\ snapX509 = "none"
    /\ snapAtReturn = NoSnapshot(config)
    /\ ctxDone = FALSE
    /\ LoopIdle
    /\ DaemonIdle
    /\ EchoIdle

(***************************************************************************)
(* updateCertificates (part_001 lines 255-286), up to its call of          *)
(* signalProcess: the disk write, the status, and where it goes next.      *)
(***************************************************************************)
updateCertificates(t, ok) ==
    /\ ~ panicked
    /\ x509Enabled
    /\ pc[t] = "idle"
    /\ Len(x509Attempts) < MaxUpdates
    /\ x509WriteStatus' = X509StatusAfterWrite(ok, x509WriteStatus)
    /\ x509Attempts' = Append(x509Attempts, IF ok THEN "ok" ELSE "failed")
    /\ pc' = [pc EXCEPT ![t] = AfterX509Write(ok)]
    /\ UNCHANGED notSpecVars
    /\ UNCHANGED snapVars
    /\ UNCHANGED <<config, jwtWriteStatus, procVars, panicked, spawned, signalsSent,
                   startFailures, pidSignals, notifyFailed>>

(***************************************************************************)
(* signalProcess (part_001 lines 288-316).  Lock and the read of           *)
(* processRunning; then either the start of the child or the signal, each  *)
(* ending with the deferred Unlock.                                        *)
(***************************************************************************)
signalProcess_Lock(t) ==
    /\ ~ panicked
    /\ pc[t] = "signalProcess"
    /\ MutexFree(mu)
    /\ mu' = t
    /\ pc' = [pc EXCEPT ![t] = SignalProcessBranch(processRunning)]
    /\ UNCHANGED notSpecVars
    /\ UNCHANGED snapVars
    /\ UNCHANGED <<config, healthVars, processRunning, process, childState, reaperPc,
                   reaperProc, panicked, histVars>>

\* getCmdArgs fails, or cmd.Start() fails: an error, and nothing is recorded.
signalProcess_StartFails(t, startErr) ==
    /\ ~ panicked
    /\ pc[t] = "sp_start"
    /\ getCmdArgsFails(config.CmdArgs) \/ startErr
    /\ startFailures' = startFailures + 1
    /\ notifyFailed' = TRUE
    /\ processRunning' = RunningAfterFailedStart(processRunning)
    /\ mu' = 0
    /\ pc' = [pc EXCEPT ![t] = AfterSignalProcess]
    /\ UNCHANGED notSpecVars
    /\ UNCHANGED snapVars
    /\ UNCHANGED <<config, healthVars, process, childState, reaperPc,
                   reaperProc, panicked, x509Attempts, spawned, signalsSent, pidSignals>>

\* cmd.Start() succeeds: the handle, the flag, and go s.checkProcessExit().
signalProcess_Start(t) ==
    /\ ~ panicked
    /\ pc[t] = "sp_start"
    /\ ~ getCmdArgsFails(config.CmdArgs)
    /\ spawned < MaxUpdates
    /\ LET p == spawned + 1 IN
        /\ spawned' = p
        /\ process' = p
        /\ processRunning' = RunningAfterStart
        /\ childState' = [childState EXCEPT ![p] = "running"]
        /\ reaperPc' = [reaperPc EXCEPT ![p] = "start"]
    /\ notifyFailed' = FALSE
    /\ mu' = 0
    /\ pc' = [pc EXCEPT ![t] = AfterSignalProcess]
    /\ UNCHANGED notSpecVars
    /\ UNCHANGED snapVars
    /\ UNCHANGED <<config, healthVars, reaperProc, panicked, x509Attempts, signalsSent,
                   startFailures, pidSignals>>

\* SignalProcess(s.process, s.config.RenewSignal); its error is only returned.
signalProcess_Signal(t, sigOk) ==
    /\ ~ panicked
    /\ pc[t] = "sp_signal"
    /\ process \in Pids
    /\ signalsSent' = [signalsSent EXCEPT ![process] = @ + 1]
    /\ notifyFailed' = ~ sigOk
    /\ mu' = 0
    /\ pc' = [pc EXCEPT ![t] = AfterSignalProcess]
    /\ UNCHANGED notSpecVars
    /\ UNCHANGED snapVars
    /\ UNCHANGED <<config, healthVars, processRunning, process, childState, reaperPc,
                   reaperProc, panicked, x509Attempts, spawned, startFailures, pidSignals>>

(***************************************************************************)
(* signalPID (part_001 lines 318-339): reads the PID file and signals that *)
(* process; whatever its outcome, updateCertificates only logs it.         *)
(***************************************************************************)
signalPID(t, pidOk) ==
    /\ ~ panicked
    /\ pc[t] = "signalPID"
    /\ pidSignals' = pidSignals + 1
    /\ notifyFailed' = ~ pidOk
    /\ pc' = [pc EXCEPT ![t] = "idle"]
    /\ UNCHANGED notSpecVars
    /\ UNCHANGED snapVars
    /\ UNCHANGED <<config, healthVars, procVars, panicked, x509Attempts, spawned,
                   signalsSent, startFailures>>

(***************************************************************************)
(* The child exits (the operating system).                                 *)
(***************************************************************************)
ChildExit(p) ==
    /\ ~ panicked
    /\ childState[p] = "running"
    /\ childState' = [childState EXCEPT ![p] = "exited"]
    /\ UNCHANGED notSpecVars
    /\ UNCHANGED snapVars
    /\ UNCHANGED <<config, healthVars, processRunning, process, mu, reaperPc, reaperProc,
                   pc, panicked, histVars>>

(***************************************************************************)
(* checkProcessExit (part_001 lines 341-360), the reaper started at the    *)
(* spawn of pid p.                                                         *)
(***************************************************************************)
\* lines 342-348: under the mutex, panic unless a process runs, read s.process
checkProcessExit_Begin(p) ==
    /\ ~ panicked
    /\ reaperPc[p] = "start"
    /\ MutexFree(mu)
    /\ IF ~ processRunning
       THEN /\ panicked' = TRUE
            /\ UNCHANGED <<reaperPc, reaperProc>>
       ELSE /\ reaperProc' = [reaperProc EXCEPT ![p] = process]
            /\ reaperPc' = [reaperPc EXCEPT ![p] = "wait"]
            /\ UNCHANGED panicked
    /\ UNCHANGED notSpecVars
    /\ UNCHANGED snapVars
    /\ UNCHANGED <<config, healthVars, processRunning, process, mu, childState, pc,
                   histVars>>

\* lines 350-355: proc.Wait() returns once the child has exited; s.hooks.cmdExit(*state)
checkProcessExit_Wait(p) ==
    /\ ~ panicked
    /\ reaperPc[p] = "wait"
    /\ childState[reaperProc[p]] = "exited"
    /\ reaperPc' = [reaperPc EXCEPT ![p] = "clear"]
    /\ UNCHANGED notSpecVars
    /\ UNCHANGED snapVars
    /\ UNCHANGED <<config, healthVars, processRunning, process, mu, childState,
                   reaperProc, pc, panicked, histVars>>

\* lines 350-355: proc.Wait() returns an error and a nil state; *state panics
checkProcessExit_WaitFails(p) ==
    /\ ~ panicked
    /\ reaperPc[p] = "wait"
    /\ panicked' = TRUE
    /\ UNCHANGED notSpecVars
    /\ UNCHANGED snapVars
    /\ UNCHANGED <<config, healthVars, procVars, pc, histVars>>

\* lines 357-359: under the mutex, processRunning = false
checkProcessExit_End(p) ==
    /\ ~ panicked
    /\ reaperPc[p] = "clear"
    /\ MutexFree(mu)
    /\ processRunning' = FALSE
    /\ reaperPc' = [reaperPc EXCEPT ![p] = "done"]
    /\ UNCHANGED notSpecVars
    /\ UNCHANGED snapVars
    /\ UNCHANGED <<config, healthVars, process, mu, childState, reaperProc, pc, panicked,
                   histVars>>

(***************************************************************************)
(* OnJWTBundlesUpdate (part_001 lines 498-509).                            *)
(***************************************************************************)
OnJWTBundlesUpdate(ok) ==
    /\ ~ panicked
    /\ jwtBundleEnabled
    /\ jwtWriteStatus' =
           [jwtWriteStatus EXCEPT ![config.JWTBundleFilename] = JWTStatusAfterWrite(ok, @)]
    /\ UNCHANGED notSpecVars
    /\ UNCHANGED snapVars
    /\ UNCHANGED <<config, x509WriteStatus, procVars, pc, panicked, histVars>>

(***************************************************************************)
(* performJWTSVIDUpdate (part_001 lines 400-419) for the SVID file f: a    *)
(* failed fetch (or validation) returns before any status is stored; the   *)
(* disk write stores Failed or Written.                                    *)
(***************************************************************************)
performJWTSVIDUpdate(f, fetchOk, writeOk) ==
    /\ ~ panicked
    /\ f \in config.JWTSVIDs
    /\ jwtWriteStatus' = JWTStatusAfterUpdate(f, fetchOk, writeOk)
    /\ UNCHANGED notSpecVars
    /\ UNCHANGED snapVars
    /\ UNCHANGED <<config, x509WriteStatus, procVars, pc, panicked, histVars>>

(***************************************************************************)
(* GetHealth (part_001 lines 538-540) returns s.health by value.  The copy *)
(* of the struct Health (lines 61-68) holds the pointer X509WriteStatus,   *)
(* whose string no later write changes (lines 259-264 store a pointer to a *)
(* new string), and the map JWTWriteStatus, which is the map of s.health   *)
(* itself: a Go map value refers to the one map made by New (line 82).     *)
(* The model follows the first Health returned.                            *)
(***************************************************************************)
GetHealth ==
    /\ ~ panicked
    /\ ~ snapAtReturn.taken
    /\ snapX509' = x509WriteStatus
    /\ snapAtReturn' = [taken |-> TRUE, x509 |-> x509WriteStatus, jwt |-> jwtWriteStatus]
    /\ UNCHANGED notSpecVars
    /\ UNCHANGED <<config, healthVars, procVars, pc, panicked, histVars>>

\* The entry of the path p in the Health that GetHealth returned: read through
\* its JWTWriteStatus, the map the later writes store into.
SnapshotJWTStatus(p) == jwtWriteStatus[p]

Next ==
    \/ GetHealth
    \/ \E t \in Updaters, ok \in BOOLEAN : updateCertificates(t, ok)
    \/ \E t \in Updaters : signalProcess_Lock(t)
    \/ \E t \in Updaters, startErr \in BOOLEAN : signalProcess_StartFails(t, startErr)
    \/ \E t \in Updaters : signalProcess_Start(t)
    \/ \E t \in Updaters, sigOk \in BOOLEAN : signalProcess_Signal(t, sigOk)
    \/ \E t \in Updaters, pidOk \in BOOLEAN : signalPID(t, pidOk)
    \/ \E p \in Pids : ChildExit(p)
    \/ \E p \in Pids : checkProcessExit_Begin(p)
    \/ \E p \in Pids : checkProcessExit_Wait(p)
    \/ \E p \in Pids : checkProcessExit_WaitFails(p)
    \/ \E p \in Pids : checkProcessExit_End(p)
    \/ \E ok \in BOOLEAN : OnJWTBundlesUpdate(ok)
    \/ \E f \in config.JWTSVIDs, fetchOk \in BOOLEAN, writeOk \in BOOLEAN :
            performJWTSVIDUpdate(f, fetchOk, writeOk)

Spec == Init /\ [][Next]_vars

(***************************************************************************)
(* Spec with the scheduling of the goroutines.  A goroutine that can run   *)
(* does run: the reaper returns from proc.Wait() once the child has exited,*)
(* and whoever holds s.mu reaches its deferred Unlock.  sync.Mutex hands   *)
(* the lock to a goroutine that keeps waiting for it (starvation mode), so *)
(* the reaper's two Lock calls succeed in the end.  Nothing obliges the    *)
(* child to exit, proc.Wait() to fail, or an update to arrive.             *)
(***************************************************************************)
FairSpec ==
    /\ Spec
    /\ \A p \in Pids :
          /\ SF_vars(checkProcessExit_Begin(p))
          /\ WF_vars(checkProcessExit_Wait(p))
          /\ SF_vars(checkProcessExit_End(p))
    /\ \A t \in Updaters :
          /\ WF_vars(\E startErr \in BOOLEAN : signalProcess_StartFails(t, startErr))
          /\ WF_vars(signalProcess_Start(t))
          /\ WF_vars(\E sigOk \in BOOLEAN : signalProcess_Signal(t, sigOk))


(***************************************************************************)
(* Claims checked under Spec.                                              *)
(***************************************************************************)

\* C1: in every reachable state CheckReadiness() is true if and only if every
\* tracked resource (the X.509 status when X.509 is enabled, every path of the
\* status map) is Written; one Unwritten or Failed resource makes it false.
C1_ReadinessIffAllWritten ==
    /\ CheckReadiness <=> \A r \in TrackedResources : StatusOf(r) = writeStatusWritten
    /\ (\E r \in TrackedResources : StatusOf(r) \in {writeStatusUnwritten, writeStatusFailed})
          => ~ CheckReadiness

\* C1 witness: X.509 and JWT resources are tracked, all are Written, ready.
C1_Witness ==
    /\ x509Enabled
    /\ Cardinality(DOMAIN jwtWriteStatus) = 2
    /\ \A r \in TrackedResources : StatusOf(r) = writeStatusWritten
    /\ CheckReadiness

\* C2: in every reachable state CheckLiveness() is false if and only if at least
\* one tracked resource is Failed; Unwritten resources never make it false.
C2_LivenessIffNoneFailed ==
    /\ ~ CheckLiveness <=> \E r \in TrackedResources : StatusOf(r) = writeStatusFailed
    /\ (\A r \in TrackedResources : StatusOf(r) \in {writeStatusUnwritten, writeStatusWritten})
          => CheckLiveness

\* C2 witness: one resource is Failed beside an Unwritten one, not live; the
\* X.509 status is the Failed one.
C2_Witness ==
    /\ x509Enabled
    /\ x509WriteStatus = writeStatusFailed
    /\ \E r \in DOMAIN jwtWriteStatus : jwtWriteStatus[r] = writeStatusUnwritten
    /\ \A r \in DOMAIN jwtWriteStatus : jwtWriteStatus[r] /= writeStatusFailed
    /\ ~ CheckLiveness

\* The status changes of the claim, and a status left as it is.
AllowedStatusChanges ==
    { <<writeStatusUnwritten, writeStatusWritten>>, <<writeStatusUnwritten, writeStatusFailed>>,
      <<writeStatusWritten, writeStatusFailed>>, <<writeStatusFailed, writeStatusWritten>>,
      <<writeStatusWritten, writeStatusWritten>>, <<writeStatusFailed, writeStatusFailed>>,
      <<writeStatusUnwritten, writeStatusUnwritten>> }

\* C9: every step of every operation changes the status of a tracked resource
\* only along Unwritten->Written, Unwritten->Failed, Written->Failed,
\* Failed->Written, Written->Written, Failed->Failed: a resource that has left
\* Unwritten is never set back to Unwritten, and the tracked set stays the same.
C9_StatusNeverBackToUnwritten ==
    [][ /\ TrackedResources' = TrackedResources
        /\ \A r \in TrackedResources : <<StatusOf(r), StatusOf(r)'>> \in AllowedStatusChanges
      ]_vars

\* C9 witness: a resource went Unwritten -> Failed -> Written -> Failed.
C9_Witness ==
    /\ x509Attempts = <<"failed", "ok", "failed">>
    /\ x509WriteStatus = writeStatusFailed
    /\ \E r \in DOMAIN jwtWriteStatus : jwtWriteStatus[r] = writeStatusWritten

\* Only X.509 is enabled: no JWT bundle and no JWT SVID is configured.
OnlyX509 == x509Enabled /\ ~ jwtBundleEnabled /\ ~ jwtSVIDsEnabled

\* C10: with only X.509 enabled, after any sequence of X.509 write attempts the
\* X.509 status is the outcome of the most recent attempt alone (Written if it
\* succeeded, Failed if the disk write failed, Unwritten before the first), and
\* CheckLiveness() is false exactly when that last attempt failed.
C10_StatusIsLastOutcome ==
    OnlyX509 =>
        IF x509Attempts = <<>>
        THEN x509WriteStatus = writeStatusUnwritten /\ CheckLiveness
        ELSE LET last == x509Attempts[Len(x509Attempts)] IN
             /\ last = "ok" => x509WriteStatus = writeStatusWritten /\ CheckLiveness
             /\ last = "failed" => x509WriteStatus = writeStatusFailed /\ ~ CheckLiveness

\* C10 witness: success, failure, success, and the status is Written and live again.
C10_Witness ==
    /\ OnlyX509
    /\ x509Attempts = <<"ok", "failed", "ok">>
    /\ x509WriteStatus = writeStatusWritten
    /\ CheckLiveness

\* signalProcess calls made by the successful X.509 updates so far, and those
\* of them that have not returned yet.
SignalProcessCalls ==
    IF config.Cmd = "" THEN 0
    ELSE Cardinality({i \in 1..Len(x509Attempts) : x509Attempts[i] = "ok"})

SignalProcessInFlight ==
    Cardinality({t \in Updaters : pc[t] \in {"signalProcess", "sp_start", "sp_signal"}})

NoChildExited == \A p \in Pids : childState[p] /= "exited"

\* What C5 promises of the signalProcess calls that have returned: one child
\* was spawned, every other call signalled that child, and at most one call is
\* starting a child at any time.
OneSpawnRestSignals ==
    LET returned == SignalProcessCalls - SignalProcessInFlight IN
    /\ spawned <= 1
    /\ Cardinality({t \in Updaters : pc[t] = "sp_start"}) <= 1
    /\ returned >= 1 =>
          /\ spawned = 1
          /\ process = 1
          /\ signalsSent[1] = returned - 1
    /\ \A p \in Pids \ {1} : signalsSent[p] = 0

OkWrites == Cardinality({i \in 1..Len(x509Attempts) : x509Attempts[i] = "ok"})

RECURSIVE SumTo(_, _)
SumTo(f, n) == IF n = 0 THEN 0 ELSE f[n] + SumTo(f, n - 1)

\* The signalProcess calls that have returned: each one failed to start the
\* child, started it, or signalled it.
SignalProcessReturned == startFailures + spawned + SumTo(signalsSent, MaxUpdates)

\* The updates that have written and not yet returned from signalPID.
SignalPIDAhead ==
    Cardinality({t \in Updaters : pc[t] \in {"signalProcess", "sp_start", "sp_signal",
                                             "signalPID"}})

\* C11: the process notification (signalProcess when a command is configured,
\* signalPID when a PID file is configured) is run exactly once for each
\* successful X.509 write and never for a write that failed: the calls that
\* have returned or are under way are as many as the successful writes.
C11_NotifiedOncePerSuccessfulWrite ==
    /\ SignalProcessReturned + SignalProcessInFlight =
            (IF config.Cmd /= "" THEN OkWrites ELSE 0)
    /\ pidSignals + (IF config.PIDFilename /= "" THEN SignalPIDAhead ELSE 0) =
            (IF config.PIDFilename /= "" THEN OkWrites ELSE 0)

\* C11 witness: a command and a PID file are configured; two writes succeeded
\* and one failed, every update has returned: two signalProcess calls and two
\* signalPID calls.
C11_Witness ==
    /\ config.Cmd /= "" /\ config.PIDFilename /= ""
    /\ Len(x509Attempts) = 3 /\ OkWrites = 2
    /\ \A t \in Updaters : pc[t] = "idle"
    /\ SignalProcessReturned = 2
    /\ pidSignals = 2

\* C12 (as claimed): the Health returned by GetHealth is an immutable copy:
\* its X.509 status and every JWT path entry stay what they were when GetHealth
\* returned, whatever is written afterwards.
C12_Original_SnapshotImmutable ==
    snapAtReturn.taken =>
        /\ snapX509 = snapAtReturn.x509
        /\ \A p \in DOMAIN snapAtReturn.jwt : SnapshotJWTStatus(p) = snapAtReturn.jwt[p]

\* Beside C12: the X.509 status of the returned Health does stay what it was.
SnapshotX509Immutable ==
    snapAtReturn.taken => snapX509 = snapAtReturn.x509

\* The children that are alive.
ChildrenAlive == {p \in Pids : childState[p] = "running"}

\* C18: in every reachable state at most one managed child is alive; a child
\* is started only while the running flag is false, the flag is set to true
\* under the mutex at the spawn, and it is set back to false once per spawned
\* child, by that child's reaper after the child has exited: the flag is true
\* exactly from the spawn of the latest child until its reaper has finished.
C18_AtMostOneChild ==
    /\ [](/\ Cardinality(ChildrenAlive) <= 1
          /\ processRunning <=> (spawned >= 1 /\ reaperPc[spawned] /= "done")
          /\ \A p \in Pids : p < spawned => reaperPc[p] = "done" /\ childState[p] = "exited")
    /\ [][ /\ spawned' /= spawned =>
                /\ ~ processRunning /\ processRunning'
                /\ mu /= 0
                /\ spawned' = spawned + 1
           /\ (~ processRunning /\ processRunning') => spawned' = spawned + 1
           /\ (processRunning /\ ~ processRunning') =>
                /\ reaperPc[spawned] = "clear" /\ reaperPc'[spawned] = "done"
                /\ reaperProc[spawned] = spawned
                /\ childState[spawned] = "exited"
         ]_vars

\* C18 witness: the first child exited and was reaped, the second child was
\* started after that and is the only one alive.
C18_Witness ==
    /\ spawned = 2
    /\ childState[1] = "exited" /\ reaperPc[1] = "done"
    /\ childState[2] = "running"
    /\ processRunning /\ process = 2

\* C19: under any interleaving of concurrent signalProcess calls and reapers,
\* checkProcessExit finds the running flag true when it starts, so its branch
\* 'no process running' is never taken, and no child has two reapers: every
\* reaper waits for the child it was started for.
C19_ReaperFindsFlagSet ==
    /\ \A p \in Pids : reaperPc[p] = "start" => (processRunning /\ process = p)
    /\ \A p \in Pids : reaperPc[p] \in {"wait", "clear", "done"} => reaperProc[p] = p
    /\ \A p \in Pids : reaperPc[p] /= "none" <=> p <= spawned
    /\ panicked => \E p \in Pids : reaperPc[p] = "wait"

\* C19 witness: the reaper of the second child has started and waits for it,
\* while an updater is inside signalProcess.
C19_Witness ==
    /\ ~ panicked
    /\ spawned = 2
    /\ reaperPc[2] = "wait" /\ reaperProc[2] = 2
    /\ \E t \in Updaters : pc[t] = "sp_signal"

\* The stages of updateCertificates that notify: the child, then the PID file.
NotifyStages == {"sp_start", "sp_signal", "signalPID"}

(***************************************************************************)
(* C21: a signalProcess or signalPID call that returns an error leaves     *)
(* every WriteStatus as it was and stops nothing, and the update goes on:  *)
(* after a failure with the managed child the PID-file signal follows when *)
(* a PID file is configured, and after the PID-file step the update ends.  *)
(***************************************************************************)
C21_NotifyFailuresOnlyLogged ==
    [][\A t \in Updaters :
          (pc[t] \in NotifyStages /\ pc'[t] /= pc[t] /\ notifyFailed')
              => /\ UNCHANGED healthVars
                 /\ ~ panicked'
                 /\ (pc[t] /= "signalPID" /\ config.PIDFilename /= "")
                        => pc'[t] = "signalPID"
                 /\ (pc[t] = "signalPID" \/ config.PIDFilename = "")
                        => pc'[t] = "idle"]_vars

\* The child failed to start, the write stays Written, signalPID is next.
C21_Witness ==
    /\ ~ panicked
    /\ notifyFailed
    /\ startFailures = 1
    /\ x509WriteStatus = writeStatusWritten
    /\ \E t \in Updaters : pc[t] = "signalPID"
    /\ \A t \in Updaters : pc[t] \in {"idle", "signalPID"}

\* The resources whose status a step changes.
ChangedResources == {r \in TrackedResources : StatusOf(r)' /= StatusOf(r)}

(***************************************************************************)
(* C22: a step of updateCertificates, OnJWTBundlesUpdate or                *)
(* performJWTSVIDUpdate, failing or not, changes the WriteStatus of at     *)
(* most one resource; a status that becomes Failed is the only one the     *)
(* step changes, so whatever was Written before stays Written.             *)
(***************************************************************************)
C22_FailureTouchesOneResource ==
    [][/\ Cardinality(ChangedResources) <= 1
       /\ \A r \in TrackedResources :
              (StatusOf(r)' = writeStatusFailed /\ StatusOf(r) /= writeStatusFailed)
                  => \A q \in TrackedResources \ {r} : StatusOf(q)' = StatusOf(q)]_vars

\* The JWT bundle write failed; the X.509 files and the JWT SVID stay Written.
C22_Witness ==
    /\ ~ panicked
    /\ x509WriteStatus = writeStatusWritten
    /\ jwtBundleEnabled /\ jwtSVIDsEnabled
    /\ jwtWriteStatus[config.JWTBundleFilename] = writeStatusFailed
    /\ \A f \in config.JWTSVIDs : jwtWriteStatus[f] = writeStatusWritten

\* C26 (as claimed): whenever signalProcess takes the branch that signals the
\* existing child, that child has not exited: the flag is never still true for
\* a child that has terminated.
C26_Original_SignalledChildAlive ==
    \A t \in Updaters :
        pc[t] = "sp_signal" => (process \in Pids /\ childState[process] = "running")

(***************************************************************************)
(* C28: a signalProcess whose getCmdArgs or cmd.Start fails leaves the     *)
(* child state as it was: the flag is false before and after, the handle,  *)
(* the children and the reapers are unchanged, the mutex is released; and  *)
(* a signalProcess that finds the flag false goes to the start again.      *)
(***************************************************************************)
C28_FailedStartLeavesNoChild ==
    /\ [][startFailures' /= startFailures =>
              /\ ~ processRunning /\ ~ processRunning'
              /\ notifyFailed'
              /\ mu' = 0
              /\ UNCHANGED <<process, childState, reaperPc, reaperProc, spawned>>]_vars
    /\ [][\A t \in Updaters :
              (pc[t] = "signalProcess" /\ pc'[t] /= pc[t] /\ ~ processRunning)
                  => pc'[t] = "sp_start"]_vars

\* A start failed, and the update after it started the first child.
C28_Witness ==
    /\ ~ panicked
    /\ startFailures = 1
    /\ spawned = 1 /\ process = 1 /\ processRunning
    /\ reaperPc[1] = "start"
    /\ Len(x509Attempts) = 2

\* C27 (as claimed): once a spawned child has exited, its reaper eventually
\* sets the running flag back to false, also when proc.Wait() returns an error.
C27_Original_ReaperClearsFlag ==
    \A p \in Pids : (childState[p] = "exited") ~> (reaperPc[p] = "done")

\* Beside C27: the reaper of an exited child ends, unless a goroutine panics.
ReaperEndsUnlessPanic ==
    \A p \in Pids : (childState[p] = "exited") ~> (reaperPc[p] = "done" \/ panicked)


(***************************************************************************)
(* SpecJWT: updateJWTSVID (part_001 lines 421-447), the refresh loop of    *)
(* one audience, with createRetryIntervalFunc and getRefreshInterval.      *)
(* Durations and instants are in ticks.                                    *)
(***************************************************************************)
Second == TicksPerSecond
MaxNow == MaxSeconds * Second

\* createRetryIntervalFunc's constants (part_001 lines 380-384)
initialBackoff == 1 * Second
maxBackoff == 60 * Second
multiplier == 2

\* A backoff that is doubled and never clamped.
NextBackoff_NoClamp(b) == b * multiplier

\* The closure's step (lines 387-391): backoffInterval after a call.
NextBackoff(b) ==
    IF b * multiplier > maxBackoff THEN maxBackoff ELSE b * multiplier

\* A loop that keeps its generator after a success.
RetryAfterSuccess_Kept(b) == b

\* line 440: retryInterval = createRetryIntervalFunc(), a closure whose
\* backoffInterval is initialBackoff again.
RetryAfterSuccess(b) == initialBackoff

\* Go's integer division, which truncates toward zero.
GoDiv(a, b) == IF a >= 0 THEN a \div b ELSE -((-a) \div b)

\* A refresh after the whole remaining lifetime, with no margin.
getRefreshInterval_Whole(e, t) == e - t

\* getRefreshInterval (lines 396-398): time.Until(svid.Expiry)/2 + time.Second,
\* with time.Now() = t.
getRefreshInterval(e, t) == GoDiv(e - t, 2) + Second

\* The SVID file of the loop, and the configuration SpecJWT runs it under.
LoopFile == "jwt_svid.token"
LoopConfig == [BaseConfig EXCEPT !.JWTSVIDs = {LoopFile}]

(***************************************************************************)
(* What one performJWTSVIDUpdate of the loop can meet:                     *)
(*   fetchErr  FetchJWTSVIDs returns an error;                             *)
(*   invalid   SVIDs are fetched and one of them fails ParseAndValidate;   *)
(*   writeErr  the SVIDs are fetched and disk.WriteJWTSVID fails;          *)
(*   empty     no error and no SVID, and the write succeeds;               *)
(*   ok        an SVID that expires ttl ticks from now, written.           *)
(* valid holds, for each SVID fetched, whether ParseAndValidate accepts it.*)
(***************************************************************************)
TTLs == (-MaxExpired)..MaxTTL

InvalidBatches == {<<FALSE>>, <<TRUE, FALSE>>, <<FALSE, TRUE>>}

FetchOutcomes ==
    {[kind |-> k, ttl |-> 0, valid |-> <<>>] : k \in {"fetchErr", "empty"}}
      \cup {[kind |-> "invalid", ttl |-> 0, valid |-> v] : v \in InvalidBatches}
      \cup {[kind |-> "writeErr", ttl |-> 0, valid |-> <<TRUE>>]}
      \cup {[kind |-> "ok", ttl |-> d, valid |-> <<TRUE>>] : d \in TTLs}

\* An SVID of the batch fails ParseAndValidate (the loop of lines 368-374).
SomeInvalid(o) == \E i \in DOMAIN o.valid : ~ o.valid[i]

\* A fetchJWTSVIDs that validates the first SVID only.
fetchJWTSVIDsFails_FirstOnly(o) ==
    o.kind = "fetchErr" \/ (o.valid /= <<>> /\ ~ o.valid[1])

\* fetchJWTSVIDs (lines 362-377) returns nil and an error: the fetch failed, or
\* any of the SVIDs fetched failed ParseAndValidate.
fetchJWTSVIDsFails(o) == o.kind = "fetchErr" \/ SomeInvalid(o)

InitJWT ==
    /\ config = LoopConfig
    /\ x509WriteStatus = setupHealthX509(config)
    /\ jwtWriteStatus = setupHealthJWT(config)
    /\ processRunning = FALSE
    /\ process = 0
    /\ mu = 0
    /\ pc = [t \in Updaters |-> "idle"]
    /\ childState = [p \in Pids |-> "none"]
    /\ reaperPc = [p \in Pids |-> "none"]
    /\ reaperProc = [p \in Pids |-> 0]
    /\ panicked = FALSE
    /\ x509Attempts = <<>>
    /\ spawned = 0
    /\ signalsSent = [p \in Pids |-> 0]
    /\ startFailures = 0
    /\ pidSignals = 0
    /\ notifyFailed = FALSE
    /\ snapX509 = "none"
    /\ snapAtReturn = NoSnapshot(config)
    /\ ctxDone = FALSE
    /\ now = 0
    /\ loopPc = "start"
    /\ backoffInterval = initialBackoff     \* line 422
    /\ tickerInterval = 0
    /\ expiry = 0
    /\ refreshDelay = 0
    /\ lastOutcome = "none"
    /\ failStreak = 0
    /\ brokenStreak = 0
    /\ retryReturns = <<>>
    /\ lateFetch = FALSE
    /\ lastInvalid = FALSE
    /\ lastWrote = FALSE
    /\ DaemonIdle
    /\ EchoIdle

\* What the actions of SpecJWT leave alone.
notLoopVars == <<config, x509WriteStatus, procVars, pc, histVars, snapVars, daemonVars,
                 echoVars, access>>

(***************************************************************************)
(* One performJWTSVIDUpdate at the instant t followed by the choice of the *)
(* interval (lines 424-429 and 438-444): on an error the next value of     *)
(* retryInterval, else getRefreshInterval(jwtSVIDs[0]) with, inside the    *)
(* loop, a new retryInterval.  jwtSVIDs[0] of an empty slice panics, and   *)
(* so do time.NewTicker and Ticker.Reset for an interval that is not       *)
(* positive.  inLoop tells the loop's body from the first update.          *)
(***************************************************************************)
UpdateAndArm(o, t, inLoop) ==
    /\ jwtWriteStatus' =
           JWTStatusAfterUpdate(LoopFile, ~ fetchJWTSVIDsFails(o), o.kind /= "writeErr")
    /\ now' = t
    /\ lateFetch' = (lateFetch \/ (inLoop /\ ctxDone))
    /\ lastInvalid' = SomeInvalid(o)
    /\ lastWrote' = ~ fetchJWTSVIDsFails(o)
    /\ IF fetchJWTSVIDsFails(o) \/ o.kind = "writeErr"
       THEN /\ lastOutcome' = "failed"
            /\ failStreak' = failStreak + 1
            /\ retryReturns' = Append(retryReturns, backoffInterval)
            /\ backoffInterval' = NextBackoff(backoffInterval)
            /\ tickerInterval' = backoffInterval
            /\ loopPc' = "select"
            /\ expiry' = 0            \* jwtSVIDs is nil again
            /\ refreshDelay' = 0
            /\ UNCHANGED <<brokenStreak, panicked>>
       ELSE IF o.kind = "empty"
       THEN /\ lastOutcome' = "empty"
            /\ expiry' = 0
            /\ refreshDelay' = 0
            /\ panicked' = TRUE
            /\ UNCHANGED <<failStreak, retryReturns, backoffInterval, tickerInterval,
                           loopPc, brokenStreak>>
       ELSE /\ lastOutcome' = "ok"
            /\ failStreak' = 0
            /\ brokenStreak' = failStreak
            /\ expiry' = t + o.ttl
            /\ refreshDelay' = getRefreshInterval(t + o.ttl, t)
            /\ backoffInterval' =
                   IF inLoop THEN RetryAfterSuccess(backoffInterval) ELSE backoffInterval
            /\ retryReturns' = <<>>
            /\ IF getRefreshInterval(t + o.ttl, t) > 0
               THEN /\ tickerInterval' = getRefreshInterval(t + o.ttl, t)
                    /\ loopPc' = "select"
                    /\ UNCHANGED panicked
               ELSE /\ panicked' = TRUE
                    /\ UNCHANGED <<tickerInterval, loopPc>>
    /\ UNCHANGED <<ctxDone, notLoopVars>>

\* lines 422-431: the first update and time.NewTicker(initialInterval)
updateJWTSVID_Start(o) ==
    /\ ~ panicked
    /\ loopPc = "start"
    /\ UpdateAndArm(o, now, FALSE)

\* lines 437-444: case <-ticker.C, one period after the ticker was armed
updateJWTSVID_Tick(o) ==
    /\ ~ panicked
    /\ loopPc = "select"
    /\ now + tickerInterval <= MaxNow
    /\ UpdateAndArm(o, now + tickerInterval, TRUE)

\* lines 435-436: case <-ctx.Done()
updateJWTSVID_Done ==
    /\ ~ panicked
    /\ loopPc = "select"
    /\ ctxDone
    /\ loopPc' = "returned"
    /\ UNCHANGED <<config, healthVars, procVars, pc, panicked, histVars, snapVars, ctxDone, now,
                   backoffInterval, tickerInterval, expiry, refreshDelay, lastOutcome,
                   failStreak, brokenStreak, retryReturns, lateFetch, lastInvalid, lastWrote,
                   daemonVars, echoVars, access>>

\* The caller cancels ctx.
Cancel ==
    /\ ~ ctxDone
    /\ ctxDone' = TRUE
    /\ UNCHANGED <<config, healthVars, procVars, pc, panicked, histVars, snapVars, loopVars,
                   daemonVars, echoVars, access>>

NextJWT ==
    \/ \E o \in FetchOutcomes : updateJWTSVID_Start(o)
    \/ \E o \in FetchOutcomes : updateJWTSVID_Tick(o)
    \/ updateJWTSVID_Done
    \/ Cancel

SpecJWT == InitJWT /\ [][NextJWT]_vars


(***************************************************************************)
(* Claims checked under SpecJWT.                                           *)
(***************************************************************************)
RECURSIVE Pow2(_)
Pow2(k) == IF k <= 0 THEN 1 ELSE 2 * Pow2(k - 1)

MinOf(a, b) == IF a <= b THEN a ELSE b

\* C6: the intervals one retry-interval generator returns to consecutive calls
\* are non-decreasing, each is exactly twice its predecessor unless clamped to
\* 60s, none exceeds 60s, the first one of a fresh generator is exactly 1s, and
\* the generator's internal interval always lies in [1s, 60s].
C6_RetryIntervals ==
    loopPc /= "off" =>
        /\ 1 * Second <= backoffInterval /\ backoffInterval <= 60 * Second
        /\ Len(retryReturns) >= 1 => retryReturns[1] = 1 * Second
        /\ \A i \in 1..Len(retryReturns) : retryReturns[i] <= 60 * Second
        /\ \A i \in 2..Len(retryReturns) :
              /\ retryReturns[i] >= retryReturns[i - 1]
              /\ \/ retryReturns[i] = 2 * retryReturns[i - 1]
                 \/ retryReturns[i] = 60 * Second /\ 2 * retryReturns[i - 1] > 60 * Second

\* C6 witness: eight calls of one generator; 32s is followed by the clamped
\* 60s, and 60s by 60s.
C6_Witness ==
    /\ Len(retryReturns) = 8
    /\ retryReturns[6] = 32 * Second
    /\ retryReturns[7] = 60 * Second
    /\ retryReturns[8] = 60 * Second

\* C7: in the refresh loop the delay armed after the k-th consecutive failed
\* update, counted from the start of the loop or from the last success, is
\* min(2^(k-1) s, 60s); a success ends the streak, so the failure after it
\* arms 1s again.
C7_BackoffAfterKFailures ==
    (loopPc = "select" /\ lastOutcome = "failed") =>
        /\ failStreak >= 1
        /\ tickerInterval = MinOf(Pow2(failStreak - 1) * Second, 60 * Second)

\* C7 witness: three failures in a row (armed with 1s, 2s, 4s), a success, and
\* the failure after it arms 1s.
C7_Witness ==
    /\ loopPc = "select"
    /\ brokenStreak = 3
    /\ lastOutcome = "failed"
    /\ failStreak = 1
    /\ tickerInterval = 1 * Second

\* C8: after an update that succeeded at the instant T (now) with a token of
\* expiry E, the delay computed is exactly (E-T)/2 + 1s, the half being that of
\* Go's integer Duration division (truncated toward zero); for E > T it is
\* strictly positive and is the interval the ticker is armed with.
C8_RefreshDelay ==
    lastOutcome = "ok" =>
        LET r == expiry - now
            h == refreshDelay - 1 * Second
        IN  /\ r >= 0 => 2 * h <= r /\ r < 2 * h + 2
            /\ r < 0 => r <= 2 * h /\ 2 * h - 2 < r
            /\ r > 0 => /\ refreshDelay > 0
                        /\ ~ panicked
                        /\ tickerInterval = refreshDelay

\* C8 witness: a token with an odd number of ticks left, fetched inside the
\* loop; the ticker is armed with the truncated half plus one second.
C8_Witness ==
    /\ lastOutcome = "ok"
    /\ now > 0
    /\ expiry - now = 3
    /\ tickerInterval = 1 + 1 * Second
    /\ loopPc = "select"

\* C13 (as claimed): when the issuer returns no JWT SVID and no error, the
\* refresh loop treats it as a fetch failure: it keeps running and arms the
\* timer with the next interval of its retry scheduler.
C13_Original_EmptyIsFetchFailure ==
    lastOutcome = "empty" =>
        /\ ~ panicked
        /\ loopPc = "select"
        /\ Len(retryReturns) >= 1
        /\ tickerInterval = retryReturns[Len(retryReturns)]

\* C15 (as claimed): once the cancellation signal has fired, the refresh loop
\* exits without any further fetch, even if its timer fires at or after the
\* cancellation: the loop body never makes an update with ctx.Done() closed.
C15_Original_NoFetchAfterCancel ==
    ~ lateFetch

\* Beside C15: a loop that has returned makes no update any more.
ReturnedLoopIsQuiet ==
    [][loopPc = "returned" => UNCHANGED <<loopVars, jwtWriteStatus>>]_vars

(***************************************************************************)
(* C23: when an SVID of the batch fetched fails ParseAndValidate the       *)
(* update ends as a failed fetch does: disk.WriteJWTSVID is not called,    *)
(* not even for the SVIDs that validated, the status of the file is not    *)
(* touched, and the ticker is armed with the next value of retryInterval.  *)
(***************************************************************************)
C23_ValidationFailureIsFetchFailure ==
    /\ [](lastInvalid =>
            /\ ~ lastWrote
            /\ ~ panicked
            /\ lastOutcome = "failed"
            /\ loopPc \in {"select", "returned"}
            /\ Len(retryReturns) = failStreak /\ failStreak >= 1
            /\ tickerInterval = retryReturns[Len(retryReturns)])
    /\ [][lastInvalid' => jwtWriteStatus' = jwtWriteStatus]_vars

\* A success, a failed fetch, then a batch with an invalid SVID: the file of
\* the success stays Written and the second backoff value arms the ticker.
C23_Witness ==
    /\ lastInvalid
    /\ failStreak = 2
    /\ jwtWriteStatus[LoopFile] = writeStatusWritten
    /\ tickerInterval = multiplier * initialBackoff

\* C24 (as claimed): after an update that ended in error, a fetch or validation
\* error included, the status of the file is Failed, and after an update that
\* succeeded it is Written.
C24_Original_StatusFollowsOutcome ==
    /\ lastOutcome = "failed" => jwtWriteStatus[LoopFile] = writeStatusFailed
    /\ lastOutcome = "ok" => jwtWriteStatus[LoopFile] = writeStatusWritten

(***************************************************************************)
(* C24: the status of the file follows the disk write.  After an update    *)
(* whose disk.WriteJWTSVID failed it is Failed, after an update that       *)
(* succeeded it is Written, and an update that ended before the write (the *)
(* fetch or the validation failed) leaves it as it was.                    *)
(***************************************************************************)
C24_StatusFollowsWrite ==
    /\ []((lastOutcome = "failed" /\ lastWrote)
              => jwtWriteStatus[LoopFile] = writeStatusFailed)
    /\ [](lastOutcome = "ok"
              => (lastWrote /\ jwtWriteStatus[LoopFile] = writeStatusWritten))
    /\ [][~ lastWrote' => jwtWriteStatus' = jwtWriteStatus]_vars

\* A written file, then a failed disk write, then a failed fetch: still Failed.
C24_Witness ==
    /\ lastOutcome = "failed"
    /\ ~ lastWrote /\ ~ lastInvalid
    /\ failStreak = 2
    /\ jwtWriteStatus[LoopFile] = writeStatusFailed

\* C25 (as claimed): every interval the loop arms or resets its ticker with is
\* strictly positive, whatever the expiry of the SVID fetched, an expiry that
\* already lies in the past included.
C25_Original_ArmedIntervalsPositive ==
    lastOutcome = "ok" => (refreshDelay > 0 /\ ~ panicked)


(***************************************************************************)
(* SpecDaemon: RunDaemon (part_001 lines 115-152) with its tasks, and      *)
(* runParallelDaemon (lines 154-183) with its workers.  util.RunTasks, the *)
(* watch tasks and the fetchAndWrite steps of fetchAllCredentials are      *)
(* called by this code and defined elsewhere: they are modelled from the   *)
(* specification (sections 4.1, 4.5, 5 and 6).  The configurations have no *)
(* child command and no PID file.                                          *)
(***************************************************************************)
DaemonKinds ==
    { X509On(BaseConfig),
      [X509On(BaseConfig) EXCEPT !.JWTBundleFilename = "jwt_bundle.json",
                                 !.JWTSVIDs = {"jwt_svid.token"}],
      [BaseConfig EXCEPT !.JWTBundleFilename = "jwt_bundle.json",
                         !.JWTSVIDs = {"jwt_svid.token"}] }

DaemonConfigs ==
    {[c EXCEPT !.ParallelRequests = n] : c \in DaemonKinds, n \in 0..MaxParallel}

\* A RunDaemon that starts the watchers beside the poll task.
TasksOf_Both(c) ==
    (IF c.ParallelRequests > 0 THEN {"runParallelDaemon"} ELSE {})
      \cup (IF c.SVIDFilename /= "" /\ c.SVIDKeyFilename /= "" /\ c.SVIDBundleFilename /= ""
             THEN {"watchX509Context"} ELSE {})
      \cup (IF c.JWTBundleFilename /= "" THEN {"watchJWTBundles"} ELSE {})
      \cup (IF Cardinality(c.JWTSVIDs) > 0 THEN {"watchJWTSVIDs"} ELSE {})

\* The tasks RunDaemon appends (lines 126-144).
TasksOf(c) ==
    IF c.ParallelRequests > 0 THEN {"runParallelDaemon"}
    ELSE (IF c.SVIDFilename /= "" /\ c.SVIDKeyFilename /= "" /\ c.SVIDBundleFilename /= ""
             THEN {"watchX509Context"} ELSE {})
         \cup (IF c.JWTBundleFilename /= "" THEN {"watchJWTBundles"} ELSE {})
         \cup (IF Cardinality(c.JWTSVIDs) > 0 THEN {"watchJWTSVIDs"} ELSE {})

Tasks == {k \in AllTasks : taskState[k] /= "idle"}

\* The context RunTasks hands to its tasks: cancelled with the caller's, and by
\* RunTasks itself once it has its result.
TaskCtxDone == ctxDone \/ daemonPc \in {"joining", "returned"}

\* RunDaemon's result for the result err of RunTasks (lines 146-151).
RunDaemonResult(err) ==
    IF err /= "nil" /\ err /= "canceled" THEN "nil" ELSE err

\* The steps of fetchAllCredentials (lines 204-233), in their order: the first
\* enabled step, and the enabled step after each.
\* Where a worker is once its cycle has returned: at the select of a poll
\* worker (lines 166-171), or done when Run made the call.
CycleEnd == IF mode = "RunDaemon" THEN "select" ELSE "exited"

AfterJWTBundle == IF jwtSVIDsEnabled THEN "jwtSVIDs" ELSE CycleEnd
\* A cycle that goes from X.509 to the JWT SVIDs and leaves the bundle out.
AfterX509_SkipBundle == AfterJWTBundle

AfterX509 == IF jwtBundleEnabled THEN "jwtBundle" ELSE AfterJWTBundle
FirstStep == IF x509Enabled THEN "x509" ELSE AfterX509

\* One step of the cycle of worker w with the outcome ok, next being the step
\* after it: an error is returned at once (lines 207-210, 216-219, 225-228),
\* nil after the last step (line 232).
CycleStep(w, step, ok, next) ==
    /\ workerPc' = [workerPc EXCEPT ![w] = IF ok THEN next ELSE CycleEnd]
    /\ cycleLog' = [cycleLog EXCEPT ![w] = Append(@, <<step, ok>>)]
    /\ cycleResult' = [cycleResult EXCEPT ![w] =
                           IF ~ ok THEN "error" ELSE IF next = CycleEnd THEN "nil" ELSE @]
    /\ UNCHANGED cycles

InitDaemon ==
    /\ config \in DaemonConfigs
    /\ x509WriteStatus = setupHealthX509(config)
    /\ jwtWriteStatus = setupHealthJWT(config)
    /\ processRunning = FALSE
    /\ process = 0
    /\ mu = 0
    /\ pc = [t \in Updaters |-> "idle"]
    /\ childState = [p \in Pids |-> "none"]
    /\ reaperPc = [p \in Pids |-> "none"]
    /\ reaperProc = [p \in Pids |-> 0]
    /\ panicked = FALSE
    /\ x509Attempts = <<>>
    /\ spawned = 0
    /\ signalsSent = [p \in Pids |-> 0]
    /\ startFailures = 0
    /\ pidSignals = 0
    /\ notifyFailed = FALSE
    /\ snapX509 = "none"
    /\ snapAtReturn = NoSnapshot(config)
    /\ ctxDone = FALSE
    /\ LoopIdle
    /\ daemonPc = "setup"
    /\ taskState = [k \in AllTasks |-> "idle"]
    /\ errch = <<>>
    /\ complete = 0
    /\ aggErr = "none"
    /\ daemonResult = "none"
    /\ pollPc = "off"
    /\ workerPc = [w \in Workers |-> "off"]
    /\ mode \in {"Run", "RunDaemon"}
    /\ cycles = [w \in Workers |-> 0]
    /\ cycleLog = [w \in Workers |-> <<>>]
    /\ cycleResult = [w \in Workers |-> "none"]
    /\ EchoIdle

\* What the actions of SpecDaemon leave alone.
notDaemonVars == <<config, procVars, pc, panicked, histVars, snapVars, loopVars, mode,
                   echoVars, access>>

(***************************************************************************)
(* RunDaemon, lines 116-146: setupClients; on its error RunDaemon returns  *)
(* it.  Otherwise the tasks are chosen and RunTasks starts each in a       *)
(* goroutine; runParallelDaemon starts its ParallelRequests workers        *)
(* (lines 157-174).                                                        *)
(***************************************************************************)
RunDaemon_Setup(ok) ==
    /\ mode = "RunDaemon"
    /\ daemonPc = "setup"
    /\ IF ~ ok
       THEN /\ daemonResult' = "error"
            /\ daemonPc' = "returned"
            /\ UNCHANGED <<taskState, pollPc, workerPc, cycles>>
       ELSE /\ daemonPc' = "running"
            /\ taskState' = [k \in AllTasks |->
                                IF k \in TasksOf(config) THEN "running" ELSE "idle"]
            /\ pollPc' = IF config.ParallelRequests > 0 THEN "waitCtx" ELSE "off"
            /\ workerPc' = [w \in Workers |->
                                IF w <= config.ParallelRequests THEN FirstStep ELSE "off"]
            /\ cycles' = [w \in Workers |-> IF w <= config.ParallelRequests THEN 1 ELSE 0]
            /\ UNCHANGED daemonResult
    /\ UNCHANGED <<healthVars, ctxDone, errch, complete, aggErr, cycleLog, cycleResult,
                   notDaemonVars>>

(***************************************************************************)
(* A poll worker (lines 159-173): fetchAllCredentials step by step, a      *)
(* failed step ending the cycle, then the test of ctx.Done().              *)
(***************************************************************************)
\* fetchAndWriteX509Context, as the specification has it: Failed on an error,
\* Written on success.
fetchAllCredentials_X509(w, ok) ==
    /\ workerPc[w] = "x509"
    /\ x509WriteStatus' = IF ok THEN writeStatusWritten ELSE writeStatusFailed
    /\ CycleStep(w, "x509", ok, AfterX509)
    /\ UNCHANGED <<jwtWriteStatus, ctxDone, daemonPc, taskState, errch, complete, aggErr,
                   daemonResult, pollPc, notDaemonVars>>

\* fetchAndWriteJWTBundle, likewise.
fetchAllCredentials_JWTBundle(w, ok) ==
    /\ workerPc[w] = "jwtBundle"
    /\ jwtWriteStatus' = [jwtWriteStatus EXCEPT ![config.JWTBundleFilename] =
                              IF ok THEN writeStatusWritten ELSE writeStatusFailed]
    /\ CycleStep(w, "jwtBundle", ok, AfterJWTBundle)
    /\ UNCHANGED <<x509WriteStatus, ctxDone, daemonPc, taskState, errch, complete, aggErr,
                   daemonResult, pollPc, notDaemonVars>>

\* fetchAndWriteJWTSVIDs, likewise, for every configured audience: the SVID
\* files in failed are those whose fetch or write failed.
fetchAllCredentials_JWTSVIDs(w, failed) ==
    /\ workerPc[w] = "jwtSVIDs"
    /\ failed \subseteq config.JWTSVIDs
    /\ jwtWriteStatus' = [p \in DOMAIN jwtWriteStatus |->
                              IF p \in failed THEN writeStatusFailed
                              ELSE IF p \in config.JWTSVIDs THEN writeStatusWritten
                              ELSE jwtWriteStatus[p]]
    /\ CycleStep(w, "jwtSVIDs", failed = {}, CycleEnd)
    /\ UNCHANGED <<x509WriteStatus, ctxDone, daemonPc, taskState, errch, complete, aggErr,
                   daemonResult, pollPc, notDaemonVars>>

\* lines 166-171: select { case <-ctx.Done(): return; default: }
Worker_Select(w) ==
    /\ workerPc[w] = "select"
    /\ IF TaskCtxDone
       THEN /\ workerPc' = [workerPc EXCEPT ![w] = "exited"]
            /\ UNCHANGED cycleVars
       ELSE /\ cycles[w] < MaxCycles
            /\ workerPc' = [workerPc EXCEPT ![w] = FirstStep]
            /\ cycles' = [cycles EXCEPT ![w] = @ + 1]
            /\ cycleLog' = [cycleLog EXCEPT ![w] = <<>>]
            /\ cycleResult' = [cycleResult EXCEPT ![w] = "none"]
    /\ UNCHANGED <<healthVars, ctxDone, daemonPc, taskState, errch, complete, aggErr,
                   daemonResult, pollPc, notDaemonVars>>

\* line 176: <-ctx.Done()
runParallelDaemon_CtxDone ==
    /\ pollPc = "waitCtx"
    /\ TaskCtxDone
    /\ pollPc' = "wgWait"
    /\ UNCHANGED <<healthVars, ctxDone, daemonPc, taskState, errch, complete, aggErr,
                   daemonResult, workerPc, cycleVars, notDaemonVars>>

\* lines 179-182: wg.Wait() and return nil
runParallelDaemon_Return ==
    /\ pollPc = "wgWait"
    /\ \A w \in Workers : workerPc[w] \in {"off", "exited"}
    /\ pollPc' = "returned"
    /\ taskState' = [taskState EXCEPT !["runParallelDaemon"] = "returned"]
    /\ errch' = Append(errch, "nil")
    /\ UNCHANGED <<healthVars, ctxDone, daemonPc, complete, aggErr, daemonResult,
                   workerPc, cycleVars, notDaemonVars>>

(***************************************************************************)
(* The watch tasks of the watch daemon.  While one runs, its handler       *)
(* stores the outcome of each update: OnX509ContextUpdate (lines 465-471)  *)
(* calls updateCertificates, OnJWTBundlesUpdate is lines 498-509, and the  *)
(* refresh loops call performJWTSVIDUpdate.  A watch task returns nil or   *)
(* the cancellation error once its context is cancelled, and may return    *)
(* another error at any time.                                              *)
(***************************************************************************)
Watcher_Update(k, fetchOk, writeOk) ==
    /\ k \in AllTasks \ {"runParallelDaemon"}
    /\ taskState[k] = "running"
    /\ k /= "watchJWTSVIDs" => fetchOk
    /\ x509WriteStatus' =
           IF k = "watchX509Context" THEN X509StatusAfterWrite(writeOk, x509WriteStatus)
           ELSE x509WriteStatus
    /\ \E f \in (IF k = "watchJWTSVIDs" THEN config.JWTSVIDs ELSE {""}) :
          jwtWriteStatus' =
             IF k = "watchJWTBundles"
             THEN [jwtWriteStatus EXCEPT ![config.JWTBundleFilename] =
                                            JWTStatusAfterWrite(writeOk, @)]
             ELSE IF k = "watchJWTSVIDs" THEN JWTStatusAfterUpdate(f, fetchOk, writeOk)
             ELSE jwtWriteStatus
    /\ UNCHANGED <<ctxDone, daemonVars, notDaemonVars>>

Watcher_Returns(k, res) ==
    /\ k \in AllTasks \ {"runParallelDaemon"}
    /\ taskState[k] = "running"
    /\ res \in {"nil", "canceled"} => TaskCtxDone
    /\ taskState' = [taskState EXCEPT ![k] = "returned"]
    /\ errch' = Append(errch, res)
    /\ UNCHANGED <<healthVars, ctxDone, daemonPc, complete, aggErr, daemonResult, pollPc,
                   workerPc, cycleVars, notDaemonVars>>

(***************************************************************************)
(* util.RunTasks: it receives the tasks' results in the order they return; *)
(* the first error is its result, nil once every task returned nil, and    *)
(* the cancellation error when ctx is cancelled first.  It then cancels    *)
(* the tasks' context and waits for every task before it returns.          *)
(***************************************************************************)
RunTasks_Receive ==
    /\ daemonPc = "running"
    /\ errch /= <<>>
    /\ errch' = Tail(errch)
    /\ IF Head(errch) = "nil"
       THEN /\ complete' = complete + 1
            /\ IF complete + 1 = Cardinality(Tasks)
               THEN aggErr' = "nil" /\ daemonPc' = "joining"
               ELSE UNCHANGED <<aggErr, daemonPc>>
       ELSE /\ aggErr' = Head(errch)
            /\ daemonPc' = "joining"
            /\ UNCHANGED complete
    /\ UNCHANGED <<healthVars, ctxDone, taskState, daemonResult, pollPc, workerPc,
                   cycleVars, notDaemonVars>>

RunTasks_CtxDone ==
    /\ mode = "RunDaemon"
    /\ daemonPc = "running"
    /\ ctxDone
    /\ aggErr' = "canceled"
    /\ daemonPc' = "joining"
    /\ UNCHANGED <<healthVars, ctxDone, taskState, errch, complete, daemonResult, pollPc,
                   workerPc, cycleVars, notDaemonVars>>

\* RunTasks returns once every task has; RunDaemon returns (lines 146-151).
RunDaemon_Return ==
    /\ daemonPc = "joining"
    /\ \A k \in Tasks : taskState[k] = "returned"
    /\ daemonResult' = RunDaemonResult(aggErr)
    /\ daemonPc' = "returned"
    /\ UNCHANGED <<healthVars, ctxDone, taskState, errch, complete, aggErr, pollPc,
                   workerPc, cycleVars, notDaemonVars>>

(***************************************************************************)
(* Run (part_001 lines 185-202): setupClients, then one call of            *)
(* fetchAllCredentials, or with ParallelRequests = N > 0 the call          *)
(* util.RunTasksInParallel(ctx, s.fetchAllCredentials, N), which is        *)
(* modelled from the specification (section 5): a burst of N cycles run in *)
(* parallel, the call returning once they all have.                        *)
(***************************************************************************)
\* The workers that make Run's calls of fetchAllCredentials.
RunWorkers(c) == IF c.ParallelRequests > 0 THEN 1..c.ParallelRequests ELSE {1}

Run_Setup(ok) ==
    /\ mode = "Run"
    /\ daemonPc = "setup"
    /\ IF ~ ok
       THEN /\ daemonResult' = "error"
            /\ daemonPc' = "returned"
            /\ UNCHANGED <<workerPc, cycles>>
       ELSE /\ daemonPc' = "running"
            /\ workerPc' = [w \in Workers |->
                                IF w \in RunWorkers(config) THEN FirstStep ELSE "off"]
            /\ cycles' = [w \in Workers |-> IF w \in RunWorkers(config) THEN 1 ELSE 0]
            /\ UNCHANGED daemonResult
    /\ UNCHANGED <<healthVars, ctxDone, taskState, pollPc, errch, complete, aggErr, cycleLog,
                   cycleResult, notDaemonVars>>

\* Run returns r: what its one cycle returned (line 201); for the burst
\* (line 198) an error of a cycle, the cancellation error when ctx was
\* cancelled, or nil when every cycle returned nil.
Run_Return(r) ==
    /\ mode = "Run"
    /\ daemonPc = "running"
    /\ \A w \in RunWorkers(config) : workerPc[w] = "exited"
    /\ IF config.ParallelRequests > 0
       THEN \/ r = "error" /\ \E w \in RunWorkers(config) : cycleResult[w] = "error"
            \/ r = "canceled" /\ ctxDone
            \/ r = "nil" /\ \A w \in RunWorkers(config) : cycleResult[w] = "nil"
       ELSE r = cycleResult[1]
    /\ daemonResult' = r
    /\ daemonPc' = "returned"
    /\ UNCHANGED <<healthVars, ctxDone, taskState, errch, complete, aggErr, pollPc,
                   workerPc, cycleVars, notDaemonVars>>

NextDaemon ==
    \/ \E ok \in BOOLEAN : RunDaemon_Setup(ok)
    \/ \E ok \in BOOLEAN : Run_Setup(ok)
    \/ \E r \in {"nil", "error", "canceled"} : Run_Return(r)
    \/ \E w \in Workers, ok \in BOOLEAN : fetchAllCredentials_X509(w, ok)
    \/ \E w \in Workers, ok \in BOOLEAN : fetchAllCredentials_JWTBundle(w, ok)
    \/ \E w \in Workers, failed \in SUBSET config.JWTSVIDs : fetchAllCredentials_JWTSVIDs(w, failed)
    \/ \E w \in Workers : Worker_Select(w)
    \/ runParallelDaemon_CtxDone
    \/ runParallelDaemon_Return
    \/ \E k \in AllTasks, fetchOk \in BOOLEAN, writeOk \in BOOLEAN : Watcher_Update(k, fetchOk, writeOk)
    \/ \E k \in AllTasks, res \in {"nil", "canceled", "error"} : Watcher_Returns(k, res)
    \/ RunTasks_Receive
    \/ RunTasks_CtxDone
    \/ RunDaemon_Return
    \/ Cancel

SpecDaemon == InitDaemon /\ [][NextDaemon]_vars

\* The poll workers, the tasks and RunTasks all get to run.
FairSpecDaemon ==
    /\ SpecDaemon
    /\ \A w \in Workers :
          /\ WF_vars(Worker_Select(w))
          /\ WF_vars(\E ok \in BOOLEAN : fetchAllCredentials_X509(w, ok))
          /\ WF_vars(\E ok \in BOOLEAN : fetchAllCredentials_JWTBundle(w, ok))
          /\ WF_vars(\E failed \in SUBSET config.JWTSVIDs :
                         fetchAllCredentials_JWTSVIDs(w, failed))
    /\ WF_vars(runParallelDaemon_CtxDone)
    /\ WF_vars(runParallelDaemon_Return)
    /\ WF_vars(RunTasks_Receive)
    /\ WF_vars(RunTasks_CtxDone)
    /\ WF_vars(RunDaemon_Return)

(***************************************************************************)
(* Claims checked under SpecDaemon.                                        *)
(***************************************************************************)

\* C3 (as claimed): RunDaemon returns a non-nil error if and only if the
\* aggregated result of its tasks is an error that is not the cancellation: a
\* task ended by cancellation is not reported, every other task error is.
C3_Original_ErrorIffNotCancellation ==
    (daemonPc = "returned" /\ aggErr /= "none") =>
        (daemonResult /= "nil" <=> aggErr \notin {"nil", "canceled"})

PollMode == mode = "RunDaemon" /\ config.ParallelRequests >= 1

\* C4 (as claimed), its part on the returned call: in poll-daemon mode with
\* N >= 1 workers, the daemon call that returns after cancellation returns no
\* error, and no worker is still running when it returns.
C4_Original_ReturnsNilAfterWorkers ==
    (PollMode /\ daemonPc = "returned" /\ aggErr /= "none") =>
        /\ daemonResult = "nil"
        /\ \A w \in Workers : w <= config.ParallelRequests => workerPc[w] = "exited"

\* Beside C4: what holds of the code.  The call returns only after every
\* worker has exited, and once cancelled it does return.
PollReturnsAfterWorkers ==
    (PollMode /\ daemonPc = "returned" /\ aggErr /= "none") =>
        \A w \in Workers : w <= config.ParallelRequests => workerPc[w] = "exited"

PollEventuallyReturns ==
    (PollMode /\ ctxDone /\ daemonPc = "running") ~> (daemonPc = "returned")

\* The enabled steps of a cycle in the order of the claim.
EnabledSteps ==
    (IF x509Enabled THEN <<"x509">> ELSE <<>>)
      \o (IF jwtBundleEnabled THEN <<"jwtBundle">> ELSE <<>>)
      \o (IF jwtSVIDsEnabled THEN <<"jwtSVIDs">> ELSE <<>>)

\* C14: within one fetchAllCredentials cycle the enabled steps run in the
\* order X.509 context, JWT bundle, JWT SVIDs; the first step that fails makes
\* the cycle return that error at once, with no later step attempted, and the
\* cycle returns nil only if every enabled step succeeded.
C14_CycleOrderFailFast ==
    \A w \in Workers :
        LET log == cycleLog[w]
            n == Len(log)
        IN  /\ n <= Len(EnabledSteps)
            /\ \A i \in 1..n : log[i][1] = EnabledSteps[i]
            /\ \A i \in 1..(n - 1) : log[i][2]
            /\ cycleResult[w] = "error" <=> (n >= 1 /\ ~ log[n][2])
            /\ cycleResult[w] = "nil" <=> (n = Len(EnabledSteps) /\ \A i \in 1..n : log[i][2])
            /\ (cycles[w] >= 1 /\ cycleResult[w] = "none") => workerPc[w] = EnabledSteps[n + 1]
            /\ (cycles[w] >= 1 /\ cycleResult[w] /= "none") => workerPc[w] \in {"select", "exited"}

\* C14 witness: the three kinds are enabled; one worker's cycle wrote the X.509
\* context, failed on the JWT bundle and returned the error without the JWT
\* SVID step, while another worker's cycle ran all three steps and returned nil.
C14_Witness ==
    /\ Len(EnabledSteps) = 3
    /\ \E w \in Workers :
          /\ cycleLog[w] = <<<<"x509", TRUE>>, <<"jwtBundle", FALSE>>>>
          /\ cycleResult[w] = "error"
    /\ \E w \in Workers :
          /\ Len(cycleLog[w]) = 3
          /\ cycleResult[w] = "nil"

\* The fetchAllCredentials calls made so far, by all workers.
TotalCycles == SumTo(cycles, MaxParallel)

\* setupClients has succeeded and the mode's work was started.
Started ==
    \/ daemonPc \in {"running", "joining"}
    \/ daemonPc = "returned" /\ (Tasks /= {} \/ TotalCycles > 0)

\* One watcher task for each enabled credential kind.
WatchersOfEnabledKinds ==
    {k \in AllTasks : \/ k = "watchX509Context" /\ x509Enabled
                      \/ k = "watchJWTBundles" /\ jwtBundleEnabled
                      \/ k = "watchJWTSVIDs" /\ jwtSVIDsEnabled}

\* C16: the run mode is one of four, fixed by the entry point and by
\* ParallelRequests: Run with 0 makes exactly one fetch cycle, Run with N > 0
\* a burst of N cycles, RunDaemon with N > 0 starts only the poll task and no
\* watcher, RunDaemon with 0 starts exactly one watcher per enabled kind and
\* no poll worker.
C16_ModeByConfiguration ==
    LET N == config.ParallelRequests IN
    /\ ~ Started => Tasks = {} /\ TotalCycles = 0
    /\ (mode = "Run" /\ Started) =>
          /\ Tasks = {} /\ pollPc = "off"
          /\ TotalCycles = (IF N = 0 THEN 1 ELSE N)
          /\ \A w \in Workers : cycles[w] <= 1
    /\ (mode = "RunDaemon" /\ N > 0 /\ Started) =>
          /\ Tasks = {"runParallelDaemon"}
          /\ \A w \in Workers : (w <= N) <=> (workerPc[w] /= "off")
    /\ (mode = "RunDaemon" /\ N = 0 /\ Started) =>
          /\ Tasks = WatchersOfEnabledKinds
          /\ pollPc = "off" /\ TotalCycles = 0
          /\ \A w \in Workers : workerPc[w] = "off"

\* C16 witness: RunDaemon with ParallelRequests = 0 and the three kinds
\* enabled runs the three watchers and nothing else.
C16_Witness ==
    /\ mode = "RunDaemon" /\ config.ParallelRequests = 0
    /\ daemonPc = "running"
    /\ Tasks = {"watchX509Context", "watchJWTBundles", "watchJWTSVIDs"}
    /\ \A w \in Workers : workerPc[w] = "off"


(***************************************************************************)
(* SpecEcho: the echo server of src/main.go (lines 9-22), the same server  *)
(* that TestEcho starts (src/unnamed/part_000 lines 13-24).  One route,    *)
(* GET "/", whose handler answers with the value of the query parameter    *)
(* "query".  A request is a method, a path and the name=value pairs of its *)
(* query string, the values as they are written in the URL.                *)
(***************************************************************************)
StatusOK == 200

ParamNames == {"query", "other"}

\* Values as written in a URL, and url.QueryUnescape of each: '+' and %20 are
\* a space, %zz is no escape and an error.
RawValues == {"", "hello", "a+b", "a%20b", "%zz"}

QueryUnescapeFails(raw) == raw = "%zz"

QueryUnescape(raw) ==
    CASE raw = "a+b" -> "a b"
      [] raw = "a%20b" -> "a b"
      [] OTHER -> raw

RECURSIVE SeqsUpTo(_, _)
SeqsUpTo(S, n) ==
    IF n = 0 THEN {<<>>}
    ELSE SeqsUpTo(S, n - 1) \cup {Append(q, x) : q \in SeqsUpTo(S, n - 1), x \in S}

Requests ==
    [method : {"GET", "POST"}, path : {"/", "/other"},
     query : SeqsUpTo(ParamNames \X RawValues, MaxParams)]

\* c.QueryParams(): the pairs of the query string in their order, a pair whose
\* value does not unescape being left out.
RECURSIVE ParseQuery(_)
ParseQuery(q) ==
    IF q = <<>> THEN <<>>
    ELSE IF QueryUnescapeFails(Head(q)[2]) THEN ParseQuery(Tail(q))
    ELSE <<(<<Head(q)[1], QueryUnescape(Head(q)[2])>>)>> \o ParseQuery(Tail(q))

ValuesOf(pairs, name) == SelectSeq(pairs, LAMBDA pr : pr[1] = name)

\* A QueryParam that returns the last value of the name.
QueryParam_Last(req, name) ==
    LET vals == ValuesOf(ParseQuery(req.query), name)
    IN  IF vals = <<>> THEN "" ELSE vals[Len(vals)][2]

\* c.QueryParam(name) (main.go line 14): the first value of the name, "" when
\* the query string has none.
QueryParam(req, name) ==
    LET vals == ValuesOf(ParseQuery(req.query), name)
    IN  IF vals = <<>> THEN "" ELSE vals[1][2]

InitEcho ==
    /\ config = BaseConfig
    /\ x509WriteStatus = setupHealthX509(config)
    /\ jwtWriteStatus = setupHealthJWT(config)
    /\ processRunning = FALSE
    /\ process = 0
    /\ mu = 0
    /\ pc = [t \in Updaters |-> "idle"]
    /\ childState = [p \in Pids |-> "none"]
    /\ reaperPc = [p \in Pids |-> "none"]
    /\ reaperProc = [p \in Pids |-> 0]
    /\ panicked = FALSE
    /\ x509Attempts = <<>>
    /\ spawned = 0
    /\ signalsSent = [p \in Pids |-> 0]
    /\ startFailures = 0
    /\ pidSignals = 0
    /\ notifyFailed = FALSE
    /\ snapX509 = "none"
    /\ snapAtReturn = NoSnapshot(config)
    /\ ctxDone = FALSE
    /\ LoopIdle
    /\ DaemonIdle
    /\ request \in Requests
    /\ response = [status |-> 0, body |-> ""]
    /\ access = [a \in Accessors |-> NoAccess]

notEchoVars == <<config, healthVars, procVars, pc, panicked, histVars, snapVars, ctxDone,
                 loopVars, daemonVars, access>>

\* main.go lines 12-18: the route GET "/" and its handler.
Echo_Handle ==
    /\ response.status = 0
    /\ request.method = "GET" /\ request.path = "/"
    /\ response' = [status |-> StatusOK, body |-> QueryParam(request, "query")]
    /\ UNCHANGED <<request, notEchoVars>>

\* The router for a path with a route and a method without: 405.
Echo_MethodNotAllowed ==
    /\ response.status = 0
    /\ request.method /= "GET" /\ request.path = "/"
    /\ response' = [status |-> 405, body |-> "Method Not Allowed"]
    /\ UNCHANGED <<request, notEchoVars>>

\* The router for a path with no route: 404.
Echo_NotFound ==
    /\ response.status = 0
    /\ request.path /= "/"
    /\ response' = [status |-> 404, body |-> "Not Found"]
    /\ UNCHANGED <<request, notEchoVars>>

NextEcho ==
    \/ Echo_Handle
    \/ Echo_MethodNotAllowed
    \/ Echo_NotFound

SpecEcho == InitEcho /\ [][NextEcho]_vars

(***************************************************************************)
(* Claims checked under SpecEcho.                                          *)
(***************************************************************************)

\* The positions of the well-formed parameters named "query" of the request.
QueryPositions ==
    {i \in 1..Len(request.query) :
        request.query[i][1] = "query" /\ ~ QueryUnescapeFails(request.query[i][2])}

InitRace ==
    /\ config \in DaemonKinds
    /\ x509WriteStatus = setupHealthX509(config)
    /\ jwtWriteStatus = setupHealthJWT(config)
    /\ processRunning = FALSE
    /\ process = 0
    /\ mu = 0
    /\ pc = [t \in Updaters |-> "idle"]
    /\ childState = [p \in Pids |-> "none"]
    /\ reaperPc = [p \in Pids |-> "none"]
    /\ reaperProc = [p \in Pids |-> 0]
    /\ panicked = FALSE
    /\ x509Attempts = <<>>
    /\ spawned = 0
    /\ signalsSent = [p \in Pids |-> 0]
    /\ startFailures = 0
    /\ pidSignals = 0
    /\ notifyFailed = FALSE
    /\ snapX509 = "none"
    /\ snapAtReturn = NoSnapshot(config)
    /\ ctxDone = FALSE
    /\ LoopIdle
    /\ DaemonIdle
    /\ EchoIdle

notRaceVars == <<config, procVars, pc, panicked, histVars, snapVars, ctxDone, loopVars,
                 daemonVars, echoVars>>

\* lines 259-264: the store of the X.509 status by updateCertificates
updateCertificates_Store(a, ok) ==
    /\ a \in Updaters
    /\ x509Enabled
    /\ access[a] = NoAccess
    /\ access' = [access EXCEPT ![a] = [kind |-> "write", target |-> X509Resource]]
    /\ x509WriteStatus' = X509StatusAfterWrite(ok, x509WriteStatus)
    /\ UNCHANGED <<jwtWriteStatus, notRaceVars>>

\* lines 503, 506: the store into the status map by OnJWTBundlesUpdate
OnJWTBundlesUpdate_Store(a, ok) ==
    /\ a \in Updaters
    /\ jwtBundleEnabled
    /\ access[a] = NoAccess
    /\ access' = [access EXCEPT ![a] = [kind |-> "write", target |-> "JWTWriteStatus"]]
    /\ jwtWriteStatus' =
           [jwtWriteStatus EXCEPT ![config.JWTBundleFilename] = JWTStatusAfterWrite(ok, @)]
    /\ UNCHANGED <<x509WriteStatus, notRaceVars>>

\* lines 412, 415: the store into the status map by performJWTSVIDUpdate
performJWTSVIDUpdate_Store(a, f, ok) ==
    /\ a \in Updaters
    /\ f \in config.JWTSVIDs
    /\ access[a] = NoAccess
    /\ access' = [access EXCEPT ![a] = [kind |-> "write", target |-> "JWTWriteStatus"]]
    /\ jwtWriteStatus' = JWTStatusAfterUpdate(f, TRUE, ok)
    /\ UNCHANGED <<x509WriteStatus, notRaceVars>>

\* lines 517-540: a health query reads the status map (the range loops of
\* lines 518 and 530) or the X.509 status (lines 523, 535, 539)
Health_Read(target) ==
    /\ access[0] = NoAccess
    /\ target = X509Resource => x509Enabled
    /\ access' = [access EXCEPT ![0] = [kind |-> "read", target |-> target]]
    /\ UNCHANGED <<healthVars, notRaceVars>>

\* The access of a is over.
Access_End(a) ==
    /\ access[a] /= NoAccess
    /\ access' = [access EXCEPT ![a] = NoAccess]
    /\ UNCHANGED <<healthVars, notRaceVars>>

NextRace ==
    \/ \E a \in Accessors, ok \in BOOLEAN : updateCertificates_Store(a, ok)
    \/ \E a \in Accessors, ok \in BOOLEAN : OnJWTBundlesUpdate_Store(a, ok)
    \/ \E a \in Accessors, ok \in BOOLEAN : performJWTSVIDUpdate_Store(a, LoopFile, ok)
    \/ \E target \in {X509Resource, "JWTWriteStatus"} : Health_Read(target)
    \/ \E a \in Accessors : Access_End(a)

SpecRace == InitRace /\ [][NextRace]_vars

(***************************************************************************)
(* Claims checked under SpecRace.                                          *)
(***************************************************************************)

\* Two goroutines access the same target at the same time, one of them writing.
Conflict(a, b) ==
    /\ a /= b
    /\ access[a].kind /= "none" /\ access[b].kind /= "none"
    /\ access[a].target = access[b].target
    /\ access[a].kind = "write" \/ access[b].kind = "write"

\* C20 (as claimed): all reads and writes of the write statuses are
\* synchronized: in no reachable state do two tasks access the status map, or
\* the X.509 status, at the same time with at least one of them writing.
C20_Original_StatusAccessSynchronized ==
    \A a, b \in Accessors : ~ Conflict(a, b)

=============================================================================
